---- MODULE Spec2Model ----
(***************************************************************************)
(* Model of the Concentrate gateway client (src/src/client.py) and of the  *)
(* configuration it reads (src/src/config.py).                             *)
(*                                                                         *)
(* Strings that the code only copies or concatenates are TLA+ strings.     *)
(* Strings whose characters the code or a property looks at (the           *)
(* credential) are sequences of one-character strings.  A model            *)
(* identifier is the sequence of its "/"-separated segments, i.e. the      *)
(* value of model.split("/").  A Python dict is a function whose DOMAIN    *)
(* is the set of keys that are present.                                    *)
(***************************************************************************)
EXTENDS Integers, Sequences, FiniteSets, TLC

VARIABLES
    \* ---- configuration and client object ----
    env_api_key,      \* settings.concentrate_api_key (environment)
    OPENAI_MODELS,    \* config.OPENAI_MODELS
    client_state,     \* "none" | "ready" | "ValueError"
    ctor_arg,         \* the api_key argument given to __init__
    api_key,          \* self.api_key
    headers,          \* self.headers
    env_base_url,     \* settings.concentrate_api_base_url (environment)
    base_url,         \* self.base_url
    timeout,          \* self.timeout, in seconds
    \* ---- one chat_completion call under the retry decorator ----
    pc,               \* "idle" | "attempting" | "returned" | "raised"
    caller,           \* "none" | "direct" | "probe"
    req,              \* keyword arguments of the call
    plan,             \* what the transport does on attempts 1, 2, 3
    attempt_number,   \* tenacity's retry_state.attempt_number
    posts,            \* POSTs sent on behalf of the current call
    payload,          \* body of the last POST
    result,           \* value returned to the caller
    exc,              \* exception raised to the caller
    time_in_call,     \* time.time() less its value when the call was entered
    start_time,       \* start_time of the current attempt, on the same scale
    metrics_latency_ms,  \* metrics["latency_ms"] of the returned result
    ncalls,           \* chat_completion calls started so far
    netCalls,         \* POSTs sent so far by the process
    \* ---- test_connection ----
    probe_pc,         \* "idle" | "running" | "returned" | "raised"
    probe_ret,        \* value returned by test_connection
    probe_call,       \* what the call made by test_connection did (history)
    \* ---- request translation on its own ----
    messages, input_parts, input_text, xl_pc,
    \* ---- response normalisation on its own ----
    raw, norm, nm_pc,
    \* ---- run_exercise.main and the ExperimentRunner ----
    run_pc,              \* where main() is: "off" | "init" | "running" | "saved" |
                         \* "finished" | "halted" | "interrupted" | "errored" | "killed"
    phase,               \* experiment being run, 1..5 (6: all five returned)
    issued,              \* calls of the current experiment issued so far
    step,                \* "next" | "awaiting" | "sleeping" | "gather"
    experiment_results,  \* the local list of the current experiment
    results,             \* self.results
    sequential_times,    \* experiment 5
    tasks,               \* experiment 5: the coroutines handed to asyncio.gather
    start,               \* experiment 5: `start` of the current sequential request
    concurrent_start,    \* experiment 5
    saved,               \* the document written by save_results
    experiment_counts,   \* the tally of print_summary
    now,                 \* the clock: one tick per resolved call
    slept,               \* time slept since the last call resolved (history)
    attempted,           \* calls issued by each experiment (history)
    failures             \* calls that raised APIRequestError so far (history)

clientVars == <<env_api_key, OPENAI_MODELS, client_state, ctor_arg, api_key, headers,
                 env_base_url, base_url, timeout>>
callVars   == <<pc, caller, req, plan, attempt_number, posts, payload, result, exc,
                time_in_call, start_time, metrics_latency_ms, ncalls, netCalls>>
probeVars  == <<probe_pc, probe_ret, probe_call>>
xlVars     == <<messages, input_parts, input_text, xl_pc>>
nmVars     == <<raw, norm, nm_pc>>
runVars    == <<run_pc, phase, issued, step, experiment_results, results,
                sequential_times, tasks, start, concurrent_start, saved>>
sumVars    == <<experiment_counts>>
histVars   == <<now, slept, attempted, failures>>
drvVars    == <<runVars, sumVars, histVars>>
vars       == <<clientVars, callVars, probeVars, xlVars, nmVars, drvVars>>

----------------------------------------------------------------------------
(* Bounds of the model *)

MaxMsgs == 3          \* longest message list translated
MaxTokUnits == 2      \* token counts are 0, 5, .., 5 * MaxTokUnits
MaxCalls == 2         \* chat_completion calls per run

----------------------------------------------------------------------------
(* Python helpers *)

\* dict.get(k, default)
Get(d, k, default) == IF k \in DOMAIN d THEN d[k] ELSE default

\* every dict with keys among `keys` and values in `vals`
Dicts(keys, vals) == UNION {[S -> vals] : S \in SUBSET keys}

EmptyDict == [k \in {} |-> 0]

\* sep.join(parts)
RECURSIVE Join(_, _)
Join(sep, parts) ==
    IF Len(parts) = 0 THEN ""
    ELSE IF Len(parts) = 1 THEN parts[1]
    ELSE parts[1] \o sep \o Join(sep, Tail(parts))

\* truthiness of a character string
Truthy(s) == Len(s) > 0

----------------------------------------------------------------------------
(* Request translation: chat_completion, client.py lines 71-98 *)

\* the model name cut after the first "/" instead of the last
model_name_AfterFirstSlash(model) == IF Len(model) > 1 THEN Tail(model) ELSE model

\* model.split("/")[-1] if "/" in model else model
model_name(model) == IF Len(model) > 1 THEN <<model[Len(model)]>> ELSE model

\* AppendPart without the `if content:` test
AppendPart_NoSkip(parts, msg) ==
    LET role    == Get(msg, "role", "user")
        content == Get(msg, "content", "")
    IN  IF role = "system" THEN Append(parts, "System: " \o content)
        ELSE IF role = "assistant" THEN Append(parts, "Assistant: " \o content)
        ELSE Append(parts, content)

\* AppendPart with a prefix for the user role as well
AppendPart_UserPrefix(parts, msg) ==
    LET role    == Get(msg, "role", "user")
        content == Get(msg, "content", "")
    IN  IF content # ""
        THEN IF role = "system" THEN Append(parts, "System: " \o content)
             ELSE IF role = "assistant" THEN Append(parts, "Assistant: " \o content)
             ELSE IF role = "user" THEN Append(parts, "User: " \o content)
             ELSE Append(parts, content)
        ELSE parts

\* one iteration of the loop over messages (lines 75-83)
AppendPart(parts, msg) ==
    LET role    == Get(msg, "role", "user")
        content == Get(msg, "content", "")
    IN  IF content # ""
        THEN IF role = "system" THEN Append(parts, "System: " \o content)
             ELSE IF role = "assistant" THEN Append(parts, "Assistant: " \o content)
             ELSE Append(parts, content)
        ELSE parts

\* the loop `for msg in messages` (lines 73-83), from message i on
RECURSIVE InputPartsFrom(_, _, _)
InputPartsFrom(msgs, i, parts) ==
    IF i > Len(msgs) THEN parts
    ELSE InputPartsFrom(msgs, i + 1, AppendPart(parts, msgs[i]))

InputParts(msgs) == InputPartsFrom(msgs, 1, <<>>)

\* input_text = "\n".join(input_parts)   (line 85)
InputText(msgs) == Join("\n", InputParts(msgs))

\* the payload with `stream` copied whenever the caller passed it
Payload_StreamAsGiven(r) ==
    [k \in {"model", "input", "temperature"} |->
        CASE k = "model" -> model_name(r["model"])
          [] k = "input" -> InputText(r["messages"])
          [] k = "temperature" -> Get(r, "temperature", "0.7")]
    @@ (IF "max_tokens" \in DOMAIN r
        THEN "max_output_tokens" :> r["max_tokens"] ELSE EmptyDict)
    @@ (IF "top_p" \in DOMAIN r THEN "top_p" :> r["top_p"] ELSE EmptyDict)
    @@ (IF "stream" \in DOMAIN r THEN "stream" :> r["stream"] ELSE EmptyDict)

\* the outbound payload (lines 87-98); an option left at None is not a key
\* of `r`, and stream defaults to False
Payload(r) ==
    [k \in {"model", "input", "temperature"} |->
        CASE k = "model" -> model_name(r["model"])
          [] k = "input" -> InputText(r["messages"])
          [] k = "temperature" -> Get(r, "temperature", "0.7")]
    @@ (IF "max_tokens" \in DOMAIN r
        THEN "max_output_tokens" :> r["max_tokens"] ELSE EmptyDict)
    @@ (IF "top_p" \in DOMAIN r THEN "top_p" :> r["top_p"] ELSE EmptyDict)
    @@ (IF Get(r, "stream", FALSE) THEN "stream" :> TRUE ELSE EmptyDict)

----------------------------------------------------------------------------
(* Response normalisation: chat_completion, client.py lines 111-138 *)

\* A JSON value that may or may not be an object.
JsonNull    == [t |-> "null"]
JsonDict(d) == [t |-> "dict", d |-> d]

\* UsageOf written as result.get("usage"), without the {} default
UsageOf_NoDefault(res) == Get(res, "usage", JsonNull)

\* result.get("usage", {})
UsageOf(res) == Get(res, "usage", JsonDict(EmptyDict))

\* usage.get(..) on a value that is not a dict raises AttributeError
NormalizeRaises(res) == UsageOf(res).t # "dict"

\* lines 113-138, for a response whose usage is a dict or is missing
formatted_result(res, model) ==
    LET output_text == Get(res, "output", Get(res, "text", Get(res, "content", "")))
        usage == UsageOf(res).d
        metrics ==
          [prompt_tokens |-> Get(usage, "prompt_tokens", Get(usage, "input_tokens", 0)),
           completion_tokens |->
               Get(usage, "completion_tokens", Get(usage, "output_tokens", 0)),
           total_tokens |->
               Get(usage, "total_tokens",
                   Get(usage, "prompt_tokens", 0) + Get(usage, "completion_tokens", 0))]
    IN  [choices |-> <<[message |-> [role |-> "assistant", content |-> output_text]]>>,
         usage |-> [prompt_tokens |-> metrics.prompt_tokens,
                    completion_tokens |-> metrics.completion_tokens,
                    total_tokens |-> metrics.total_tokens],
         model |-> model,
         metrics |-> metrics,
         raw_response |-> res]

----------------------------------------------------------------------------
(* Transport and exception handlers: chat_completion, client.py lines 105-164 *)

\* Body of a failure response.  `parsed` is what e.response.json() gives
\* ([t |-> "invalid"] when it raises), `text` is e.response.text.
ErrorBodies ==
    { [text |-> "{error:{message:boom}}",
       parsed |-> JsonDict("error" :> JsonDict("message" :> "boom"))],
      [text |-> "Bad Gateway", parsed |-> [t |-> "invalid"]] }

\* What one `client.post` + `raise_for_status` + `response.json()` can do
\* (lines 106-111):
\*   ok      - 2xx status, the body decodes to the JSON object `json`
\*   badjson - 2xx status, response.json() raises
\*   http    - raise_for_status() raises httpx.HTTPStatusError
\*   net     - client.post raises an httpx.RequestError (timeout, DNS, refused)
OkOutcome(json)          == [kind |-> "ok", json |-> json]
BadJsonOutcome           == [kind |-> "badjson"]
HttpOutcome(status, b)   == [kind |-> "http", status |-> status, body |-> b]
NetOutcome(msg)          == [kind |-> "net", msg |-> msg]

\* the exception raised inside the `try` block, if any (lines 106-145)
InnerException(o) ==
    CASE o.kind = "net"     -> [type |-> "RequestError", str |-> o.msg]
      [] o.kind = "http"    -> [type |-> "HTTPStatusError", str |-> "status error"]
      [] o.kind = "badjson" -> [type |-> "JSONDecodeError", str |-> "Expecting value"]
      [] o.kind = "ok" /\ NormalizeRaises(o.json)
                            -> [type |-> "AttributeError", str |-> "no attribute get"]
      [] OTHER              -> [type |-> "none", str |-> ""]

\* error_detail of the HTTPStatusError handler (lines 148-153)
error_detail(o) ==
    LET error_body == o.body.parsed
        error == IF error_body.t = "dict"
                 THEN Get(error_body.d, "error", JsonDict(EmptyDict))
                 ELSE [t |-> "invalid"]
    IN  "HTTP " \o ToString(o.status) \o ": " \o
        (IF error.t = "dict" THEN Get(error.d, "message", "Unknown error")
         ELSE o.body.text)

APIRequestError(detail) == [type |-> "APIRequestError", detail |-> detail]

\* Handlers with the HTTPStatusError clause letting the httpx exception through
Handlers_RawHttp(o) ==
    LET e == InnerException(o)
    IN  CASE e.type = "HTTPStatusError" -> [type |-> e.type, detail |-> e.str]
          [] e.type = "RequestError"    -> APIRequestError("Request failed: " \o e.str)
          [] OTHER                      -> APIRequestError("Unexpected error: " \o e.str)

\* Handlers without the final `except Exception` clause
Handlers_NoCatchAll(o) ==
    LET e == InnerException(o)
    IN  CASE e.type = "HTTPStatusError" -> APIRequestError(error_detail(o))
          [] e.type = "RequestError"    -> APIRequestError("Request failed: " \o e.str)
          [] OTHER                      -> [type |-> e.type, detail |-> e.str]

\* the three `except` clauses (lines 147-164)
Handlers(o) ==
    LET e == InnerException(o)
    IN  CASE e.type = "HTTPStatusError" -> APIRequestError(error_detail(o))
          [] e.type = "RequestError"    -> APIRequestError("Request failed: " \o e.str)
          [] OTHER                      -> APIRequestError("Unexpected error: " \o e.str)

\* one execution of the function body (lines 69-164) against transport outcome o
ChatCompletionBody(r, o) ==
    IF InnerException(o).type = "none"
    THEN [raised |-> FALSE, value |-> formatted_result(o.json, r["model"])]
    ELSE [raised |-> TRUE, exc |-> Handlers(o)]

----------------------------------------------------------------------------
(* The retry decorator: client.py lines 54-59 *)

StopAfterAttempt == 3

\* stop=stop_after_attempt(3)
stop_after_attempt(n) == n >= StopAfterAttempt

\* retry=retry_if_exception_type((httpx.HTTPStatusError, httpx.RequestError)),
\* applied to the exception the decorated function raised
retry_if_exception_type(e) == e.type \in {"HTTPStatusError", "RequestError"}

----------------------------------------------------------------------------
(* Time in the client, in tenths of a second *)

\* how long the POST of an attempt takes: an answer comes quickly, a
\* network failure shows after a timeout
AttemptDuration(o) == IF o.kind = "net" THEN 3 ELSE 1

\* wait=wait_exponential(multiplier=1, min=2, max=10) before attempt n + 1:
\* max(min, min(multiplier * 2 ** (n - 1), max)) seconds
wait_exponential(n) ==
    LET exp == 10 * (2 ^ (n - 1))
    IN  IF exp < 20 THEN 20 ELSE IF exp > 100 THEN 100 ELSE exp

\* start_time = time.time() (line 103), run by every attempt n at time t
StartTime(t, previous, n) == t

\* round(elapsed_time * 1000, 2) for an elapsed time in tenths of a second
latency_ms(elapsed_time) == elapsed_time * 100

----------------------------------------------------------------------------
(* Values the environment and the callers supply *)

PyNone     == [t |-> "none"]
PyBool(b)  == [t |-> "bool", v |-> b]
PyStr(x)   == [t |-> "str", v |-> x]

\* bool(x) of a Python value
PyTruthy(x) ==
    CASE x.t = "none" -> FALSE
      [] x.t = "bool" -> x.v
      [] x.t = "str"  -> x.v # ""

\* `a and b`
PyAnd(a, b) == IF PyTruthy(a) THEN b ELSE a

\* credentials: empty, whitespace only, a real key
Credentials == {<<>>, <<" ">>, <<"k">>}

\* CONCENTRATE_API_KEY: unset (the default "") or set
EnvCredentials == {<<>>, <<"k">>}

\* a URL is its text up to the trailing "/" characters, then these
\* characters one by one; the default of CONCENTRATE_API_BASE_URL
DefaultBaseUrl == <<"https://api.concentrate.ai/v1">>

\* CONCENTRATE_API_BASE_URL: unset, or set with "/" at the end
EnvBaseUrls == {DefaultBaseUrl, DefaultBaseUrl \o <<"/", "/">>}

\* str.rstrip("/")
RECURSIVE rstrip(_)
rstrip(url) ==
    IF url # <<>> /\ url[Len(url)] = "/" THEN rstrip(SubSeq(url, 1, Len(url) - 1))
    ELSE url

\* the default of the timeout argument of __init__, in seconds
DefaultTimeout == 30

\* the api_key argument of __init__: None or a string
CtorArgs == {[t |-> "none"]} \cup {[t |-> "chars", v |-> c] : c \in Credentials}

\* parse_models(settings.openai_models): none or some models configured
ModelLists == {<<>>, <<(<<"openai", "gpt-4o-mini">>), (<<"openai", "gpt-4o">>)>>}

RoleValues    == {"system", "assistant", "user", "tool"}
ContentValues == {"", "a", "b"}
Messages      ==
    {r @@ c : r \in {EmptyDict} \cup {"role" :> x : x \in RoleValues},
              c \in {EmptyDict} \cup {"content" :> y : y \in ContentValues}}
MessageLists  == UNION {[1..n -> Messages] : n \in 0..MaxMsgs}

TokenValues == {5 * i : i \in 0..MaxTokUnits}
UsageKeys   == {"prompt_tokens", "completion_tokens", "total_tokens",
                "input_tokens", "output_tokens"}
UsageValues == {JsonNull} \cup {JsonDict(d) : d \in Dicts(UsageKeys, TokenValues)}
TextBodies  == Dicts({"output", "text", "content"}, {"Hi"}) \cup {"output" :> ""}
RawResponses ==
    TextBodies \cup {b @@ ("usage" :> u) : b \in TextBodies, u \in UsageValues}

\* a few responses for the calls of the client state machine
SampleResponses ==
    { ("output" :> "Hello") @@
          ("usage" :> JsonDict(("prompt_tokens" :> 5) @@ ("completion_tokens" :> 5)
                               @@ ("total_tokens" :> 10))),
      "output" :> "" }

TransportOutcomes ==
    {OkOutcome(j) : j \in SampleResponses}
    \cup {BadJsonOutcome, NetOutcome("timeout")}
    \cup {HttpOutcome(500, b) : b \in ErrorBodies}

\* what the transport does on each of the attempts a call can make
Plans == [1..StopAfterAttempt -> TransportOutcomes]

\* calls a driver makes
Requests ==
    { [model |-> <<"openai", "gpt-4o-mini">>,
       messages |-> <<[role |-> "system", content |-> "a"],
                      [role |-> "user", content |-> "b"]>>,
       temperature |-> "0.7", max_tokens |-> 256] }

NoRequest == EmptyDict
NoPlan    == <<>>
NoResult  == EmptyDict
NoExc     == [type |-> "none", detail |-> ""]
NoHeaders == EmptyDict
NoDoc     == EmptyDict

----------------------------------------------------------------------------
(* State machine of the client *)

CallIdle ==
    /\ pc = "idle" /\ caller = "none" /\ req = NoRequest /\ plan = NoPlan
    /\ attempt_number = 0 /\ posts = 0 /\ payload = EmptyDict
    /\ result = NoResult /\ exc = NoExc
    /\ time_in_call = 0 /\ start_time = 0 /\ metrics_latency_ms = 0

\* main() at position p, before ExperimentRunner(client) (run_exercise.py line 45)
DrvAt(p) ==
    /\ run_pc = p /\ phase = 0 /\ issued = 0 /\ step = "next"
    /\ experiment_results = <<>> /\ results = <<>>
    /\ sequential_times = <<>> /\ tasks = <<>>
    /\ start = 0 /\ concurrent_start = 0
    /\ saved = NoDoc /\ experiment_counts = EmptyDict
    /\ now = 0 /\ slept = 0 /\ attempted = [ph \in 1..5 |-> 0] /\ failures = 0

XlIdle == messages = <<>> /\ input_parts = <<>> /\ input_text = "" /\ xl_pc = "off"
NmIdle == raw = EmptyDict /\ norm = EmptyDict /\ nm_pc = "off"

Init ==
    /\ env_api_key \in EnvCredentials
    /\ OPENAI_MODELS \in ModelLists
    /\ client_state = "none" /\ ctor_arg = PyNone /\ api_key = <<>>
    /\ headers = NoHeaders
    /\ env_base_url = DefaultBaseUrl /\ base_url = <<>> /\ timeout = 0
    /\ CallIdle
    /\ ncalls = 0 /\ netCalls = 0
    /\ probe_pc = "idle" /\ probe_ret = PyNone /\ probe_call = EmptyDict
    /\ XlIdle /\ NmIdle /\ DrvAt("off")

\* ConcentrateClient.__init__ (lines 34-50)
Construct(arg) ==
    /\ client_state = "none"
    /\ ctor_arg' = arg
    /\ base_url' = rstrip(env_base_url)
    /\ timeout' = DefaultTimeout
    /\ LET key == IF arg.t = "chars" /\ Truthy(arg.v) THEN arg.v ELSE env_api_key
       IN  /\ api_key' = key
           /\ IF ~Truthy(key)
              THEN /\ client_state' = "ValueError"
                   /\ headers' = NoHeaders
              ELSE /\ client_state' = "ready"
                   /\ headers' = [Authorization |-> <<"Bearer", " ">> \o key,
                                  ContentType |-> "application/json"]
    /\ UNCHANGED <<env_api_key, OPENAI_MODELS, env_base_url>>
    /\ UNCHANGED <<callVars, probeVars, xlVars, nmVars, drvVars>>

\* entering the decorated chat_completion: tenacity starts at attempt 1
Begin(who, r, p) ==
    /\ client_state = "ready"
    /\ pc = "idle"
    /\ ncalls < MaxCalls
    /\ pc' = "attempting"
    /\ caller' = who
    /\ req' = r
    /\ plan' = p
    /\ attempt_number' = 1
    /\ posts' = 0
    /\ payload' = EmptyDict
    /\ result' = NoResult
    /\ exc' = NoExc
    /\ time_in_call' = 0 /\ start_time' = 0 /\ metrics_latency_ms' = 0
    /\ ncalls' = ncalls + 1
    /\ UNCHANGED <<netCalls, clientVars, xlVars, nmVars, drvVars>>

\* the call's frame is gone once its caller has taken the outcome
EndCall ==
    /\ pc' = "idle" /\ caller' = "none" /\ req' = NoRequest /\ plan' = NoPlan
    /\ attempt_number' = 0 /\ posts' = 0 /\ payload' = EmptyDict
    /\ result' = NoResult /\ exc' = NoExc
    /\ time_in_call' = 0 /\ start_time' = 0 /\ metrics_latency_ms' = 0

\* a driver calls client.chat_completion(...)
CallChatCompletion(r, p) ==
    /\ probe_pc # "running"
    /\ Begin("direct", r, p)
    /\ UNCHANGED probeVars

\* one attempt of the decorated function (lines 69-164) followed by
\* tenacity's decision (lines 54-59): return the value, sleep and try
\* again, or re-raise the exception of the last attempt
Attempt ==
    /\ pc = "attempting"
    /\ LET out  == ChatCompletionBody(req, plan[attempt_number])
           over == time_in_call + AttemptDuration(plan[attempt_number])
       IN  /\ payload' = Payload(req)
           /\ posts' = posts + 1
           /\ netCalls' = netCalls + 1
           /\ start_time' = StartTime(time_in_call, start_time, attempt_number)
           /\ IF ~out.raised
              THEN /\ pc' = "returned"
                   /\ result' = out.value
                   /\ time_in_call' = over
                   /\ metrics_latency_ms' = latency_ms(over - start_time')
                   /\ UNCHANGED <<exc, attempt_number>>
              ELSE IF retry_if_exception_type(out.exc)
                      /\ ~stop_after_attempt(attempt_number)
              THEN /\ pc' = "attempting"
                   /\ attempt_number' = attempt_number + 1
                   /\ time_in_call' = over + wait_exponential(attempt_number)
                   /\ UNCHANGED <<result, exc, metrics_latency_ms>>
              ELSE /\ pc' = "raised"
                   /\ exc' = out.exc
                   /\ time_in_call' = over
                   /\ UNCHANGED <<result, attempt_number, metrics_latency_ms>>
    /\ UNCHANGED <<caller, req, plan, ncalls, clientVars, probeVars, xlVars, nmVars, drvVars>>

\* the driver takes the outcome of its call
CallerResume ==
    /\ caller = "direct"
    /\ pc \in {"returned", "raised"}
    /\ EndCall
    /\ UNCHANGED <<ncalls, netCalls, clientVars, probeVars, xlVars, nmVars, drvVars>>

\* test_connection up to its call of chat_completion (lines 166-175)
TestConnection(p) ==
    /\ probe_pc = "idle"
    /\ LET test_model == IF Len(OPENAI_MODELS) > 0 THEN OPENAI_MODELS[1]
                         ELSE <<"openai", "gpt-4o-mini">>
       IN  Begin("probe",
                 [model |-> test_model,
                  messages |-> <<[role |-> "user", content |-> "Say hello"]>>,
                  max_tokens |-> 10],
                 p)
    /\ probe_pc' = "running"
    /\ UNCHANGED <<probe_ret, probe_call>>

\* test_connection from the outcome of the call on (lines 176-179)
TestConnectionReturn ==
    /\ probe_pc = "running"
    /\ caller = "probe"
    /\ pc \in {"returned", "raised"}
    /\ probe_pc' = "returned"
    /\ probe_ret' =
         IF pc = "raised" THEN PyBool(FALSE)
         ELSE PyAnd(PyBool("choices" \in DOMAIN result),
                    PyAnd(PyBool(Len(result["choices"]) > 0),
                          PyStr(result["choices"][1]["message"]["content"])))
    /\ probe_call' = [posts |-> posts, payload |-> payload, raised |-> pc = "raised",
                       content |-> IF pc = "raised" THEN ""
                                   ELSE result["choices"][1]["message"]["content"]]
    /\ EndCall
    /\ UNCHANGED <<ncalls, netCalls, clientVars, xlVars, nmVars, drvVars>>

Next ==
    \/ \E arg \in CtorArgs : Construct(arg)
    \/ \E r \in Requests, p \in Plans : CallChatCompletion(r, p)
    \/ \E p \in Plans : TestConnection(p)
    \/ Attempt
    \/ CallerResume
    \/ TestConnectionReturn

Spec == Init /\ [][Next]_vars

\* every started call is run to its end
FairSpec == Spec /\ WF_vars(Attempt)

----------------------------------------------------------------------------
(* Request translation applied to every bounded message list *)

ClientOff ==
    /\ env_api_key = <<>> /\ OPENAI_MODELS = <<>> /\ client_state = "none"
    /\ ctor_arg = PyNone /\ api_key = <<>> /\ headers = NoHeaders
    /\ env_base_url = DefaultBaseUrl /\ base_url = <<>> /\ timeout = 0
    /\ CallIdle /\ ncalls = 0 /\ netCalls = 0
    /\ probe_pc = "idle" /\ probe_ret = PyNone /\ probe_call = EmptyDict

InitTranslate ==
    /\ messages \in MessageLists
    /\ input_parts = <<>> /\ input_text = "" /\ xl_pc = "input"
    /\ ClientOff /\ NmIdle /\ DrvAt("off")

\* lines 73-85 of chat_completion
Translate ==
    /\ xl_pc = "input"
    /\ input_parts' = InputParts(messages)
    /\ input_text' = InputText(messages)
    /\ xl_pc' = "done"
    /\ UNCHANGED <<messages, clientVars, callVars, probeVars, nmVars, drvVars>>

SpecTranslate == InitTranslate /\ [][Translate]_vars

----------------------------------------------------------------------------
(* Response normalisation applied to every bounded raw response *)

InitNormalize ==
    /\ raw \in RawResponses
    /\ norm = EmptyDict /\ nm_pc = "input"
    /\ ClientOff /\ XlIdle /\ DrvAt("off")

\* lines 111-138 of chat_completion, for the model "openai/gpt-4o-mini"
Normalize ==
    /\ nm_pc = "input"
    /\ IF NormalizeRaises(raw)
       THEN nm_pc' = "raised" /\ norm' = EmptyDict
       ELSE nm_pc' = "done" /\ norm' = formatted_result(raw, <<"openai", "gpt-4o-mini">>)
    /\ UNCHANGED <<raw, clientVars, callVars, probeVars, xlVars, drvVars>>

SpecNormalize == InitNormalize /\ [][Normalize]_vars

----------------------------------------------------------------------------
(* Properties of the retry layer and of the client boundary *)

CallEnded == pc \in {"returned", "raised"}

\* a network-level failure or an HTTP error status
TransportFails(o) == o.kind \in {"net", "http"}

\* C1: a call whose transport fails on the 1st and 2nd attempts and
\* succeeds on the 3rd returns a result; no error reaches the caller.
C1_FailTwiceThenSucceed ==
    (/\ CallEnded
     /\ TransportFails(plan[1]) /\ TransportFails(plan[2])
     /\ plan[3].kind = "ok")
    => (pc = "returned" /\ exc = NoExc /\ result # NoResult)

\* C2: a call whose transport fails on every attempt makes 3 attempts and
\* then raises APIRequestError carrying the detail of the 3rd failure.
C2_ExhaustedAfterThree ==
    (CallEnded /\ \A i \in 1..StopAfterAttempt : TransportFails(plan[i]))
    => (/\ pc = "raised"
        /\ posts = StopAfterAttempt
        /\ exc = Handlers(plan[StopAfterAttempt]))

\* C3: a call never makes more than 3 transport attempts, and every call
\* that was started ends, either with a result and no error (Succeeded) or
\* with an APIRequestError and no result (Exhausted).
C3_BoundedAttemptsAndOutcome ==
    /\ [](posts <= StopAfterAttempt)
    /\ [](CallEnded =>
            \/ pc = "returned" /\ result # NoResult /\ exc = NoExc
            \/ pc = "raised" /\ result = NoResult /\ exc.type = "APIRequestError")
    /\ (pc = "attempting" ~> CallEnded)

\* a call whose first attempt hit a network failure has ended
C3_Witness == pc = "raised" /\ plan[1].kind = "net" /\ posts >= 1

\* C4: whatever goes wrong in a call (network failure, HTTP error status,
\* any other exception), the call raises, and what it raises is an
\* APIRequestError.
C4_OnlyRequestFailed ==
    /\ pc = "raised" => exc.type = "APIRequestError"
    /\ (CallEnded /\ InnerException(plan[attempt_number]).type # "none")
          => (pc = "raised" /\ exc.type = "APIRequestError")

\* a call has ended on an exception that is neither an HTTP nor a network one
C4_Witness ==
    /\ pc = "raised"
    /\ InnerException(plan[attempt_number]).type
           \notin {"none", "HTTPStatusError", "RequestError"}

----------------------------------------------------------------------------
(* Properties of response normalisation *)

\* C5: when the usage object has no total_tokens, the normalized
\* total_tokens is prompt_tokens + completion_tokens of the normalized
\* result, under either naming; {input_tokens: 10, output_tokens: 5} gives
\* prompt_tokens 10, completion_tokens 5, total_tokens 15.
C5_TotalIsDerivedSum ==
    (/\ nm_pc = "done"
     /\ "usage" \in DOMAIN raw
     /\ "total_tokens" \notin DOMAIN raw["usage"].d)
    => /\ norm.usage.total_tokens =
              norm.usage.prompt_tokens + norm.usage.completion_tokens
       /\ norm.metrics.total_tokens =
              norm.metrics.prompt_tokens + norm.metrics.completion_tokens
       /\ raw["usage"].d = (("input_tokens" :> 10) @@ ("output_tokens" :> 5))
            => norm.usage = [prompt_tokens |-> 10, completion_tokens |-> 5,
                             total_tokens |-> 15]

\* C6: a response with no usage object at all normalizes, without raising,
\* to prompt_tokens = completion_tokens = total_tokens = 0.
C6_NoUsageGivesZero ==
    (nm_pc # "input" /\ "usage" \notin DOMAIN raw)
    => /\ nm_pc = "done"
       /\ norm.usage = [prompt_tokens |-> 0, completion_tokens |-> 0,
                        total_tokens |-> 0]
       /\ norm.metrics = [prompt_tokens |-> 0, completion_tokens |-> 0,
                          total_tokens |-> 0]

\* a response with text but no usage object has been normalized
C6_Witness ==
    /\ nm_pc = "done"
    /\ "usage" \notin DOMAIN raw
    /\ "output" \in DOMAIN raw
    /\ norm.choices[1].message.content = "Hi"

----------------------------------------------------------------------------
(* Properties of request translation *)

HasContent(m) == "content" \in DOMAIN m /\ m["content"] # ""

\* indices of the messages with non-empty content, in list order
RECURSIVE NonEmptyIndices(_, _)
NonEmptyIndices(msgs, i) ==
    IF i > Len(msgs) THEN <<>>
    ELSE IF HasContent(msgs[i]) THEN <<i>> \o NonEmptyIndices(msgs, i + 1)
    ELSE NonEmptyIndices(msgs, i + 1)

\* the text a message contributes, as the claims state it
Contribution(m) ==
    IF "role" \in DOMAIN m /\ m["role"] = "system" THEN "System: " \o m["content"]
    ELSE IF "role" \in DOMAIN m /\ m["role"] = "assistant"
    THEN "Assistant: " \o m["content"]
    ELSE m["content"]

\* the contributions of messages idx[k], idx[k+1], .. separated by newlines
RECURSIVE TextFrom(_, _, _)
TextFrom(msgs, idx, k) ==
    IF k > Len(idx) THEN ""
    ELSE IF k = Len(idx) THEN Contribution(msgs[idx[k]])
    ELSE Contribution(msgs[idx[k]]) \o "\n" \o TextFrom(msgs, idx, k + 1)

\* C7: a list with at least one non-empty message translates to a
\* non-empty text holding the non-empty messages in list order, joined by
\* newlines, with the empty ones skipped; a list with no non-empty message
\* (the empty list included) translates to "".
C7_OrderPreservingText ==
    xl_pc = "done" =>
        LET idx == NonEmptyIndices(messages, 1)
        IN  /\ Len(idx) > 0 => input_text # ""
            /\ Len(idx) = 0 => input_text = ""
            /\ Len(input_parts) = Len(idx)
            /\ \A k \in 1..Len(idx) :
                  input_parts[k] \in
                      { p \o messages[idx[k]]["content"] :
                            p \in {"", "System: ", "Assistant: "} }
            /\ input_text = TextFrom(messages, idx, 1)

\* two non-empty messages around an empty one have been translated
C7_Witness ==
    /\ xl_pc = "done"
    /\ Len(messages) = MaxMsgs
    /\ HasContent(messages[1])
    /\ HasContent(messages[MaxMsgs])
    /\ messages[1]["content"] # messages[MaxMsgs]["content"]
    /\ \E i \in 2..(MaxMsgs - 1) : ~HasContent(messages[i])
    /\ Len(input_parts) = 2

\* C8: a system message contributes "System: " + content, an assistant
\* message "Assistant: " + content, and a message with any other role, or
\* with no role, its content alone.
C8_RolePrefixes ==
    xl_pc = "done" =>
        LET idx == NonEmptyIndices(messages, 1)
        IN  \A k \in 1..Len(idx) :
              LET m == messages[idx[k]]
                  role == IF "role" \in DOMAIN m THEN m["role"] ELSE "missing"
              IN  /\ k <= Len(input_parts)
                  /\ role = "system" => input_parts[k] = "System: " \o m["content"]
                  /\ role = "assistant"
                        => input_parts[k] = "Assistant: " \o m["content"]
                  /\ role \notin {"system", "assistant"}
                        => input_parts[k] = m["content"]

\* a message of an unknown role next to a system message has been translated
C8_Witness ==
    /\ xl_pc = "done"
    /\ \E i, j \in 1..Len(messages) :
          /\ HasContent(messages[i]) /\ HasContent(messages[j])
          /\ "role" \in DOMAIN messages[i] /\ messages[i]["role"] = "tool"
          /\ "role" \in DOMAIN messages[j] /\ messages[j]["role"] = "system"
    /\ Len(input_parts) = 2

----------------------------------------------------------------------------
(* Properties of construction and of the connectivity probe *)

\* empty or made of whitespace only
Blank(s) == \A i \in 1..Len(s) : s[i] = " "

\* C9: constructing a client whose credential is empty or blank fails with
\* ValueError, and no request has been sent by then.
C9_BlankCredentialRejected ==
    (client_state # "none" /\ Blank(api_key))
    => (client_state = "ValueError" /\ netCalls = 0)

\* C10: test_connection never raises; it returns a boolean that is true
\* exactly when its request produced a non-empty assistant response; it
\* sends one request, capped at 10 output tokens, to the first configured
\* model.
C10_ProbeReturnsBoolean ==
    /\ probe_pc # "raised"
    /\ probe_pc = "returned" =>
          /\ probe_ret.t = "bool"
          /\ probe_ret.v = (~probe_call.raised /\ probe_call.content # "")
          /\ probe_call.posts = 1
          /\ probe_call.payload["max_output_tokens"] = 10
          /\ Len(OPENAI_MODELS) > 0
                => probe_call.payload["model"] = model_name(OPENAI_MODELS[1])

----------------------------------------------------------------------------
(***************************************************************************)
(* The experiment driver: scripts/run_exercise.py and src/experiments.py.  *)
(*                                                                         *)
(* A record of self.results is a dict.  Of its fields the model keeps the  *)
(* ones the code branches on or counts; the copies of the prompt text      *)
(* ("prompt", "input") are left out.  Each loop of an experiment runs over *)
(* the first MaxItems elements of its list.                                *)
(***************************************************************************)

MaxItems == 2         \* elements of a catalog or of a value list that are used
MaxFailures == 1      \* calls of one run that raise APIRequestError

\* time is counted in tenths of a second
PacingDelay == 5      \* asyncio.sleep(0.5)
PerfPacingDelay == 3  \* asyncio.sleep(0.3)
num_requests == 5

\* config.ANTHROPIC_MODELS with ANTHROPIC_MODELS unset
ANTHROPIC_MODELS == <<(<<"anthropic", "claude-haiku-3">>)>>

Min(a, b) == IF a < b THEN a ELSE b

\* the part of a list the model iterates over
Trunc(s) == SubSeq(s, 1, Min(Len(s), MaxItems))

\* the prompt catalog (src/prompts.py); "content" stands for the prompt text
get_simple_qa_prompts ==
    << [name |-> "quantum_computing", content |-> "a"],
       [name |-> "cloud_benefits", content |-> "b"],
       [name |-> "python_sort", content |-> "a"] >>

get_reasoning_prompts ==
    << [name |-> "math_problem", content |-> "a"],
       [name |-> "logic_puzzle", content |-> "b"],
       [name |-> "code_reasoning", content |-> "a"] >>

get_edge_case_prompts ==
    << [name |-> "empty_input", content |-> ""],
       [name |-> "special_chars", content |-> "a"],
       [name |-> "very_long", content |-> "b"] >>

temperatures      == <<"0.0", "0.5", "1.0", "1.5">>
max_tokens_values == <<50, 150, 300>>

\* MODELS[:2] if len(MODELS) >= 2 else MODELS
FirstTwo(ms) == IF Len(ms) >= 2 THEN SubSeq(ms, 1, 2) ELSE ms

\* OPENAI_MODELS[0] if OPENAI_MODELS else "openai/gpt-4o-mini"
test_model == IF Len(OPENAI_MODELS) > 0 THEN OPENAI_MODELS[1]
              ELSE <<"openai", "gpt-4o-mini">>

UserMessage(text) == <<[role |-> "user", content |-> text]>>

\* for a in as: for b in bs: yield f(a, b)
NestedLoop(as, bs, f(_, _)) ==
    [k \in 1..(Len(as) * Len(bs)) |->
        f(as[((k - 1) \div Len(bs)) + 1], bs[((k - 1) % Len(bs)) + 1])]

\* for a in as: yield f(a)
Loop(as, f(_)) == [k \in 1..Len(as) |-> f(as[k])]

----------------------------------------------------------------------------
(* The calls of each experiment, in the order of its loops.  A call is     *)
(*   req   the keyword arguments of chat_completion,                       *)
(*   ok    what the `try` block appends after the call returned: the       *)
(*         fixed fields of one record, or nothing,                         *)
(*   err   what the `except APIRequestError` block appends,                *)
(*   timed whether the elapsed time goes to sequential_times,              *)
(*   sleep the asyncio.sleep at the end of the `try` block (0: none).      *)

Fields2(k1, v1, k2, v2) == (k1 :> v1) @@ (k2 :> v2)

\* experiment_1_multi_provider_comparison, lines 32-54, 59-90
experiment_1_calls ==
    LET test_models ==
          Loop(FirstTwo(OPENAI_MODELS),
               LAMBDA m : [provider |-> "openai", model |-> m])
          \o Loop(FirstTwo(ANTHROPIC_MODELS),
                  LAMBDA m : [provider |-> "anthropic", model |-> m])
        fields(pd, pm) ==
          Fields2("experiment", "multi_provider_comparison", "prompt_name", pd.name)
          @@ Fields2("provider", pm.provider, "model", pm.model)
    IN  NestedLoop(Trunc(get_simple_qa_prompts), test_models,
                   LAMBDA pd, pm :
                     [req |-> [model |-> pm.model, messages |-> UserMessage(pd.content),
                               temperature |-> "0.7", max_tokens |-> 256],
                      ok |-> <<fields(pd, pm)>>, err |-> <<fields(pd, pm)>>,
                      timed |-> FALSE, sleep |-> PacingDelay])

\* experiment_2_parameter_exploration, lines 101-169
experiment_2_calls ==
    LET fields(parameter, value) ==
          Fields2("experiment", "parameter_exploration", "parameter", parameter)
          @@ Fields2("value", value, "model", test_model)
    IN  Loop(Trunc(temperatures),
             LAMBDA temp :
               [req |-> [model |-> test_model, messages |-> UserMessage("a"),
                         temperature |-> temp, max_tokens |-> 200],
                ok |-> <<fields("temperature", temp)>>, err |-> <<>>,
                timed |-> FALSE, sleep |-> PacingDelay])
        \o
        Loop(Trunc(max_tokens_values),
             LAMBDA max_tokens :
               [req |-> [model |-> test_model, messages |-> UserMessage("b"),
                         temperature |-> "0.7", max_tokens |-> max_tokens],
                ok |-> <<fields("max_tokens", ToString(max_tokens))>>, err |-> <<>>,
                timed |-> FALSE, sleep |-> PacingDelay])

\* experiment_3_reasoning_comparison, lines 181-231
experiment_3_calls ==
    LET test_models == FirstTwo(OPENAI_MODELS) \o FirstTwo(ANTHROPIC_MODELS)
        fields(pd, m) ==
          Fields2("experiment", "reasoning_comparison", "prompt_name", pd.name)
          @@ ("model" :> m)
    IN  NestedLoop(Trunc(get_reasoning_prompts), test_models,
                   LAMBDA pd, m :
                     [req |-> [model |-> m, messages |-> UserMessage(pd.content),
                               temperature |-> "0.3", max_tokens |-> 512],
                      ok |-> <<fields(pd, m)>>, err |-> <<fields(pd, m)>>,
                      timed |-> FALSE, sleep |-> PacingDelay])

\* experiment_4_edge_cases, lines 242-309: the catalog's edge cases, then
\* the call with an invalid model name
experiment_4_calls ==
    LET fields(pd, handled) ==
          Fields2("experiment", "edge_cases", "case_name", pd.name)
          @@ Fields2("model", test_model, "handled", handled)
    IN  Loop(Trunc(get_edge_case_prompts),
             LAMBDA pd :
               [req |-> [model |-> test_model, messages |-> UserMessage(pd.content),
                         temperature |-> "0.7", max_tokens |-> 256],
                ok |-> <<fields(pd, TRUE)>>, err |-> <<fields(pd, FALSE)>>,
                timed |-> FALSE, sleep |-> PacingDelay])
        \o
        << [req |-> [model |-> <<"invalid", "model-name">>,
                     messages |-> UserMessage("Test")],
            ok |-> <<>>,
            err |-> << Fields2("experiment", "edge_cases", "case_name", "invalid_model")
                       @@ ("handled" :> TRUE) >>,
            timed |-> FALSE, sleep |-> 0] >>

\* range(num_requests), as far as the model goes
RequestIndices == Trunc([i \in 1..num_requests |-> i - 1])

\* experiment_5_performance_testing, the sequential loop (lines 329-345)
experiment_5_calls ==
    Loop(RequestIndices,
         LAMBDA i :
           [req |-> [model |-> test_model, messages |-> UserMessage("c"),
                     max_tokens |-> 50],
            ok |-> <<>>, err |-> <<>>, timed |-> TRUE, sleep |-> PerfPacingDelay])

\* the sequential calls of experiment ph
Calls(ph) ==
    CASE ph = 1 -> experiment_1_calls
      [] ph = 2 -> experiment_2_calls
      [] ph = 3 -> experiment_3_calls
      [] ph = 4 -> experiment_4_calls
      [] ph = 5 -> experiment_5_calls
      [] OTHER  -> <<>>

\* the concurrent calls of experiment ph (lines 363-376)
BatchSize(ph) == IF ph = 5 THEN Len(RequestIndices) ELSE 0

\* str(e) of the exception chat_completion raised
Str(e) == e.detail

\* the records one resolved call adds to experiment_results
OnSuccess(call, res, ts) ==
    Loop(call.ok,
         LAMBDA f : f @@ Fields2("response", res.choices[1].message.content,
                                 "metrics", res.metrics)
                      @@ ("timestamp" :> ts))

OnFailure(call, e, ts) ==
    Loop(call.err, LAMBDA f : f @@ Fields2("error", Str(e), "timestamp", ts))

----------------------------------------------------------------------------
(* What the driver sees of one call, and what it writes *)

\* the decorated chat_completion run to its end on transport plan p:
\* the outcome of the last attempt and the number of POSTs
RECURSIVE Attempts(_, _, _)
Attempts(r, p, n) ==
    LET out == ChatCompletionBody(r, p[n])
    IN  IF out.raised /\ retry_if_exception_type(out.exc) /\ ~stop_after_attempt(n)
        THEN Attempts(r, p, n + 1)
        ELSE [out |-> out, posts |-> n]

DecoratedCall(r, p) == Attempts(r, p, 1)

\* the gateway as the experiments meet it: it answers, or the network fails
DriverOutcomes ==
    {o \in TransportOutcomes :
        \/ o.kind = "net"
        \/ o.kind = "ok" /\ "usage" \in DOMAIN o.json}
DriverPlans == {[n \in 1..StopAfterAttempt |-> o] : o \in DriverOutcomes}

\* self.results.extend(experiment_results), with the records put in front
Extend_Prepend(rs, er) == er \o rs

\* self.results.extend(experiment_results)
Extend(rs, er) == rs \o er

\* output_data of save_results counting only the records without an error
output_data_CountSuccesses(rs, ts) ==
    [timestamp |-> ts,
     total_experiments |-> Cardinality({k \in 1..Len(rs) : "error" \notin DOMAIN rs[k]}),
     results |-> rs]

\* output_data of save_results (lines 408-412)
output_data(rs, ts) ==
    [timestamp |-> ts, total_experiments |-> Len(rs), results |-> rs]

\* save_results(filename): the file written
save_results(filename, rs, ts) == [file |-> filename, data |-> output_data(rs, ts)]

\* one pass of the loop of print_summary that counts every record a success
Counted_AllSuccess(counts, rec) ==
    LET exp_name == Get(rec, "experiment", "unknown")
        c == Get(counts, exp_name, [total |-> 0, success |-> 0, failed |-> 0])
    IN  (exp_name :> [c EXCEPT !.total = @ + 1, !.success = @ + 1]) @@ counts

\* one pass of the loop of print_summary (lines 431-440)
Counted(counts, rec) ==
    LET exp_name == Get(rec, "experiment", "unknown")
        c == Get(counts, exp_name, [total |-> 0, success |-> 0, failed |-> 0])
    IN  (exp_name :>
            IF "error" \in DOMAIN rec
            THEN [c EXCEPT !.total = @ + 1, !.failed = @ + 1]
            ELSE [c EXCEPT !.total = @ + 1, !.success = @ + 1]) @@ counts

\* experiment_counts of print_summary after the records k.. of rs
RECURSIVE CountsFrom(_, _, _)
CountsFrom(rs, k, counts) ==
    IF k > Len(rs) THEN counts
    ELSE CountsFrom(rs, k + 1, Counted(counts, rs[k]))

Tally(rs) == CountsFrom(rs, 1, EmptyDict)

RECURSIVE Sum(_)
Sum(xs) == IF xs = <<>> THEN 0 ELSE Head(xs) + Sum(Tail(xs))

\* the record of the sequential loop (lines 347-358); the average is the
\* integer part
SequentialRecord(times, ts) ==
    IF times = <<>> THEN <<>>
    ELSE << Fields2("experiment", "performance_testing", "test_type", "sequential")
            @@ Fields2("num_requests", num_requests, "avg_latency_ms", Sum(times) \div Len(times))
            @@ Fields2("latencies", times, "timestamp", ts) >>

\* concurrent_times (lines 379-381) without the first request that returned
concurrent_times_DropFirst(ts) ==
    LET all == SelectSeq(ts, LAMBDA r : r.st = "returned")
    IN  IF all = <<>> THEN <<>> ELSE Loop(Tail(all), LAMBDA r : r.latency_ms)

\* concurrent_times (lines 379-381)
concurrent_times(ts) ==
    Loop(SelectSeq(ts, LAMBDA r : r.st = "returned"), LAMBDA r : r.latency_ms)

\* the record of the concurrent batch (lines 383-395)
ConcurrentRecord(times, elapsed, ts) ==
    IF times = <<>> THEN <<>>
    ELSE << Fields2("experiment", "performance_testing", "test_type", "concurrent")
            @@ Fields2("num_requests", num_requests, "total_time_ms", elapsed)
            @@ Fields2("avg_latency_ms", Sum(times) \div Len(times), "latencies", times)
            @@ ("timestamp" :> ts) >>

\* asyncio.gather returns as soon as one coroutine has finished
gather_done_FirstCompleted(ts) == \E i \in DOMAIN ts : ts[i].st # "inflight"

\* asyncio.gather returns once every coroutine has returned (line 376);
\* make_request raises nothing, its `except` returns None
gather_done(ts) == \A i \in DOMAIN ts : ts[i].st # "inflight"

\* the loop goes on with the next combination after the `except` block
\* has run for call number i of n: break instead of continue
AfterExcept_Break(i, n) == n

\* the loop goes on with the next combination after the `except` block
\* has run for call number i of n
AfterExcept(i, n) == i

\* main() goes on to the experiments with the probe's answer ignored
InitOk_ProbeIgnored == client_state = "ready" /\ probe_pc = "returned"

\* main() goes on to the experiments (run_exercise.py lines 30-45)
InitOk == client_state = "ready" /\ probe_pc = "returned" /\ PyTruthy(probe_ret)

\* main() returns at line 39 or line 43
InitFailed ==
    \/ client_state = "ValueError"
    \/ probe_pc = "returned" /\ ~PyTruthy(probe_ret)

----------------------------------------------------------------------------
(* State machine of a run: main() of scripts/run_exercise.py *)

callFrame == <<pc, caller, req, plan, attempt_number, posts, payload, result, exc,
               time_in_call, start_time, metrics_latency_ms>>

InitRun ==
    /\ env_api_key \in EnvCredentials
    /\ OPENAI_MODELS \in ModelLists
    /\ client_state = "none" /\ ctor_arg = PyNone /\ api_key = <<>>
    /\ headers = NoHeaders
    /\ env_base_url \in EnvBaseUrls /\ base_url = <<>> /\ timeout = 0
    /\ CallIdle
    /\ ncalls = 0 /\ netCalls = 0
    /\ probe_pc = "idle" /\ probe_ret = PyNone /\ probe_call = EmptyDict
    /\ XlIdle /\ NmIdle /\ DrvAt("init")

\* client = ConcentrateClient() (line 31)
MainConstruct == run_pc = "init" /\ Construct(PyNone)

\* `return` at line 39 (the probe answered false) or at line 43 (exception)
MainHalt ==
    /\ run_pc = "init"
    /\ InitFailed
    /\ run_pc' = "halted"
    /\ UNCHANGED <<phase, issued, step, experiment_results, results, sequential_times,
                   tasks, start, concurrent_start, saved>>
    /\ UNCHANGED <<clientVars, callVars, probeVars, xlVars, nmVars, sumVars, histVars>>

\* runner = ExperimentRunner(client) (line 45) and the entry of experiment 1
CreateRunner ==
    /\ run_pc = "init"
    /\ InitOk
    /\ run_pc' = "running"
    /\ results' = <<>>
    /\ phase' = 1 /\ issued' = 0 /\ step' = "next" /\ experiment_results' = <<>>
    /\ UNCHANGED <<sequential_times, tasks, start, concurrent_start, saved>>
    /\ UNCHANGED <<clientVars, callVars, probeVars, xlVars, nmVars, sumVars, histVars>>

\* the next iteration of the loop: `await self.client.chat_completion(...)`
IssueCall ==
    /\ run_pc = "running"
    /\ step = "next"
    /\ issued < Len(Calls(phase))
    /\ issued' = issued + 1
    /\ step' = "awaiting"
    /\ start' = now
    /\ ncalls' = ncalls + 1
    /\ attempted' = [attempted EXCEPT ![phase] = @ + 1]
    /\ UNCHANGED <<run_pc, phase, experiment_results, results, sequential_times,
                   tasks, concurrent_start, saved>>
    /\ UNCHANGED <<callFrame, netCalls, now, slept, failures>>
    /\ UNCHANGED <<clientVars, probeVars, xlVars, nmVars, sumVars>>

\* the awaited call is over: the rest of the `try` block up to its sleep,
\* or the `except APIRequestError` block
ResolveCall(p) ==
    /\ run_pc = "running"
    /\ step = "awaiting"
    /\ LET call == Calls(phase)[issued]
           r    == DecoratedCall(call.req, p)
       IN  /\ r.out.raised => failures < MaxFailures
           /\ netCalls' = netCalls + r.posts
           /\ now' = now + 1
           /\ slept' = 0
           /\ IF ~r.out.raised
              THEN /\ experiment_results' =
                          experiment_results \o OnSuccess(call, r.out.value, now')
                   /\ sequential_times' =
                          IF call.timed THEN Append(sequential_times, now' - start)
                          ELSE sequential_times
                   /\ step' = IF call.sleep > 0 THEN "sleeping" ELSE "next"
                   /\ UNCHANGED <<issued, failures>>
              ELSE /\ experiment_results' =
                          experiment_results \o OnFailure(call, r.out.exc, now')
                   /\ issued' = AfterExcept(issued, Len(Calls(phase)))
                   /\ step' = "next"
                   /\ failures' = failures + 1
                   /\ UNCHANGED sequential_times
    /\ UNCHANGED <<run_pc, phase, results, tasks, start, concurrent_start, saved>>
    /\ UNCHANGED <<callFrame, ncalls, attempted>>
    /\ UNCHANGED <<clientVars, probeVars, xlVars, nmVars, sumVars>>

\* `await asyncio.sleep(...)` is over
SleepDone ==
    /\ run_pc = "running"
    /\ step = "sleeping"
    /\ step' = "next"
    /\ slept' = Calls(phase)[issued].sleep
    /\ now' = now + Calls(phase)[issued].sleep
    /\ UNCHANGED <<run_pc, phase, issued, experiment_results, results, sequential_times,
                   tasks, start, concurrent_start, saved, attempted, failures>>
    /\ UNCHANGED <<clientVars, callVars, probeVars, xlVars, nmVars, sumVars>>

\* the loops of experiment 1, 2, 3 or 4 are over: self.results.extend(...),
\* return, and the entry of the next experiment
EndExperiment ==
    /\ run_pc = "running"
    /\ phase \in 1..4
    /\ step = "next"
    /\ issued = Len(Calls(phase))
    /\ results' = Extend(results, experiment_results)
    /\ phase' = phase + 1
    /\ issued' = 0
    /\ experiment_results' = <<>>
    /\ UNCHANGED <<run_pc, step, sequential_times, tasks, start, concurrent_start, saved>>
    /\ UNCHANGED <<clientVars, callVars, probeVars, xlVars, nmVars, sumVars, histVars>>

\* experiment 5 between its two parts (lines 347-376): the record of the
\* sequential loop, then every make_request(i) is started by asyncio.gather
StartBatch ==
    /\ run_pc = "running"
    /\ phase = 5
    /\ step = "next"
    /\ issued = Len(Calls(phase))
    /\ experiment_results' = experiment_results \o SequentialRecord(sequential_times, now)
    /\ concurrent_start' = now
    /\ tasks' = [i \in 1..BatchSize(phase) |->
                    [st |-> "inflight", latency_ms |-> 0, took |-> 0]]
    /\ step' = "gather"
    /\ ncalls' = ncalls + BatchSize(phase)
    /\ attempted' = [attempted EXCEPT ![phase] = @ + BatchSize(phase)]
    /\ UNCHANGED <<run_pc, phase, issued, results, sequential_times, start, saved>>
    /\ UNCHANGED <<callFrame, netCalls, now, slept, failures>>
    /\ UNCHANGED <<clientVars, probeVars, xlVars, nmVars, sumVars>>

\* how long a call of the batch may take, in ticks of the clock; a call
\* of the sequential loops takes one tick
CallDurations == {1, 2}

\* the calls of the batch run one after the other: a call that takes d is
\* over d after the call that ended before it
CompletionTime_Serialized(t_launch, t_now, d) == t_now + d

\* when a call that takes d is over, if asyncio.gather started it at
\* t_launch (line 376): the coroutines run concurrently, each is suspended
\* in its own `await self.client.chat_completion(...)`
CompletionTime(t_launch, t_now, d) == t_launch + d

\* make_request(i - 1) from the end of its call on (lines 369-373); the
\* call took d, and the calls of the batch end in the order of time
TaskResolve(i, p, d) ==
    /\ run_pc = "running"
    /\ step = "gather"
    /\ i \in DOMAIN tasks
    /\ tasks[i].st = "inflight"
    /\ CompletionTime(concurrent_start, now, d) >= now
    /\ LET r == DecoratedCall(Calls(phase)[1].req, p)
       IN  /\ r.out.raised => failures < MaxFailures
           /\ netCalls' = netCalls + r.posts
           /\ now' = CompletionTime(concurrent_start, now, d)
           /\ IF ~r.out.raised
              THEN /\ tasks' = [tasks EXCEPT ![i] =
                                  [st |-> "returned", latency_ms |-> d, took |-> d]]
                   /\ UNCHANGED failures
              ELSE /\ tasks' = [tasks EXCEPT ![i] =
                                  [st |-> "none", latency_ms |-> 0, took |-> d]]
                   /\ failures' = failures + 1
    /\ UNCHANGED <<run_pc, phase, issued, step, experiment_results, results,
                   sequential_times, start, concurrent_start, saved>>
    /\ UNCHANGED <<callFrame, ncalls, slept, attempted>>
    /\ UNCHANGED <<clientVars, probeVars, xlVars, nmVars, sumVars>>

\* asyncio.gather returns; the rest of experiment 5 (lines 377-400)
GatherReturn ==
    /\ run_pc = "running"
    /\ step = "gather"
    /\ gather_done(tasks)
    /\ LET concurrent_elapsed == now - concurrent_start
       IN  results' = Extend(results,
                             experiment_results
                             \o ConcurrentRecord(concurrent_times(tasks),
                                                 concurrent_elapsed, now))
    /\ experiment_results' = <<>>
    /\ phase' = phase + 1
    /\ issued' = 0
    /\ step' = "next"
    /\ UNCHANGED <<run_pc, sequential_times, tasks, start, concurrent_start, saved>>
    /\ UNCHANGED <<clientVars, callVars, probeVars, xlVars, nmVars, sumVars, histVars>>

\* main() closes the client on its way out
ExitFrame_ClosesClient ==
    /\ UNCHANGED <<phase, issued, step, experiment_results, results, sequential_times,
                   tasks, start, concurrent_start>>
    /\ client_state' = "closed"
    /\ UNCHANGED <<env_api_key, OPENAI_MODELS, ctor_arg, api_key, headers,
                   env_base_url, base_url, timeout>>
    /\ UNCHANGED <<callVars, probeVars, xlVars, nmVars, histVars>>

\* what every way out of main() after line 45 leaves alone
ExitFrame ==
    /\ UNCHANGED <<phase, issued, step, experiment_results, results, sequential_times,
                   tasks, start, concurrent_start>>
    /\ UNCHANGED <<clientVars, callVars, probeVars, xlVars, nmVars, histVars>>

\* results_file = runner.save_results() (line 54)
SaveResults ==
    /\ run_pc = "running"
    /\ phase = 6
    /\ saved' = save_results("experiment_results_" \o ToString(now) \o ".json",
                             results, now)
    /\ run_pc' = "saved"
    /\ UNCHANGED experiment_counts
    /\ ExitFrame

\* runner.print_summary() (line 56)
PrintSummary ==
    /\ run_pc = "saved"
    /\ experiment_counts' = Tally(results)
    /\ run_pc' = "finished"
    /\ UNCHANGED saved
    /\ ExitFrame

\* Ctrl-C while the experiments run.  Where the KeyboardInterrupt surfaces
\* depends on the interpreter and on the moment: inside main(), where
\* lines 61-63 save the results, or only in asyncio.run, main() having
\* been cancelled, where nothing is saved.  experiment_results keeps the
\* value the local list had when its frame was left.
Interrupt(in_main) ==
    /\ run_pc = "running"
    /\ IF in_main
       THEN /\ saved' = save_results("experiment_results_interrupted.json", results, now)
            /\ run_pc' = "interrupted"
       ELSE /\ run_pc' = "killed"
            /\ UNCHANGED saved
    /\ UNCHANGED experiment_counts
    /\ ExitFrame

\* an exception other than APIRequestError leaves an experiment and is
\* caught at line 64; lines 65-67
UnexpectedError ==
    /\ run_pc = "running"
    /\ phase \in 1..5
    /\ saved' = save_results("experiment_results_error.json", results, now)
    /\ run_pc' = "errored"
    /\ UNCHANGED experiment_counts
    /\ ExitFrame

NextRun ==
    \/ MainConstruct
    \/ \E p \in Plans : TestConnection(p)
    \/ Attempt
    \/ TestConnectionReturn
    \/ MainHalt
    \/ CreateRunner
    \/ IssueCall
    \/ \E p \in DriverPlans : ResolveCall(p)
    \/ SleepDone
    \/ EndExperiment
    \/ StartBatch
    \/ \E i \in 1..num_requests, p \in DriverPlans, d \in CallDurations :
          TaskResolve(i, p, d)
    \/ GatherReturn
    \/ SaveResults
    \/ PrintSummary
    \/ \E in_main \in BOOLEAN : Interrupt(in_main)
    \/ UnexpectedError

SpecRun == InitRun /\ [][NextRun]_vars

----------------------------------------------------------------------------
(* print_summary applied to every bounded record sequence *)

MaxRecords == 5       \* longest record sequence summarised

SummaryRecords ==
    {n @@ e : n \in {EmptyDict} \cup {"experiment" :> x : x \in {"x", "y"}},
              e \in {EmptyDict, "error" :> "boom"}}
SummaryInputs == UNION {[1..n -> SummaryRecords] : n \in 0..MaxRecords}

InitSummary ==
    /\ results \in SummaryInputs
    /\ run_pc = "saved" /\ phase = 6 /\ issued = 0 /\ step = "next"
    /\ experiment_results = <<>>
    /\ sequential_times = <<>> /\ tasks = <<>>
    /\ start = 0 /\ concurrent_start = 0
    /\ saved = save_results("experiment_results_0.json", results, 0)
    /\ experiment_counts = EmptyDict
    /\ now = 0 /\ slept = 0 /\ attempted = [ph \in 1..5 |-> 0] /\ failures = 0
    /\ env_api_key = <<"k">> /\ OPENAI_MODELS = <<>> /\ client_state = "ready"
    /\ ctor_arg = PyNone /\ api_key = <<"k">>
    /\ headers = [Authorization |-> <<"Bearer", " ", "k">>,
                  ContentType |-> "application/json"]
    /\ env_base_url = DefaultBaseUrl /\ base_url = rstrip(env_base_url)
    /\ timeout = DefaultTimeout
    /\ CallIdle /\ ncalls = 0 /\ netCalls = 0
    /\ probe_pc = "idle" /\ probe_ret = PyNone /\ probe_call = EmptyDict
    /\ XlIdle /\ NmIdle

SpecSummary == InitSummary /\ [][PrintSummary]_vars

----------------------------------------------------------------------------
(* Properties of the experiment driver *)

\* the "experiment" field of the records of experiment ph
ExperimentName(ph) ==
    CASE ph = 1 -> "multi_provider_comparison"
      [] ph = 2 -> "parameter_exploration"
      [] ph = 3 -> "reasoning_comparison"
      [] ph = 4 -> "edge_cases"
      [] ph = 5 -> "performance_testing"

\* the calls experiment ph makes when nothing stops it
PlannedCalls(ph) == Len(Calls(ph)) + BatchSize(ph)

\* the method of experiment ph has returned
Returned(ph) == run_pc \notin {"off", "init", "halted"} /\ phase > ph

\* the records of experiment ph in the record sequence rs
RecordsOf(rs, ph) ==
    {k \in DOMAIN rs : Get(rs[k], "experiment", "unknown") = ExperimentName(ph)}

\* C11: an experiment that has returned has appended exactly one record
\* per call it attempted, whichever of its calls raised APIRequestError.
C11_OneRecordPerCall ==
    \A ph \in 1..5 :
        Returned(ph) => Cardinality(RecordsOf(results, ph)) = attempted[ph]

\* C12: a call that raises APIRequestError aborts nothing: an experiment
\* that has returned has attempted every one of its combinations, and
\* after any call the driver can go on (next call, end of the experiment,
\* next experiment, save).
C12_NoPhaseAborts ==
    /\ \A ph \in 1..5 : Returned(ph) => attempted[ph] = PlannedCalls(ph)
    /\ (run_pc = "running" /\ step = "next")
         => ENABLED (IssueCall \/ EndExperiment \/ StartBatch \/ SaveResults)
    /\ run_pc = "finished" => phase = 6

\* a run that finished although a call failed, with a record made after
\* the failure record in the same experiment
C12_Witness ==
    /\ run_pc = "finished"
    /\ failures > 0
    /\ \E k \in 1..(Len(results) - 1) :
          /\ "error" \in DOMAIN results[k]
          /\ "error" \notin DOMAIN results[k + 1]
          /\ results[k + 1]["experiment"] = results[k]["experiment"]

\* the experiment name print_summary files a record under
NameOf(rec) == Get(rec, "experiment", "unknown")

WithName(rs, name) == {k \in DOMAIN rs : NameOf(rs[k]) = name}
WithError(rs, name) == {k \in WithName(rs, name) : "error" \in DOMAIN rs[k]}

\* C13: the tally of print_summary has one entry per experiment name that
\* occurs in the record sequence, with total = records of that name,
\* failed = those carrying an error, success = the others, and
\* total = success + failed.
C13_TallyCounts ==
    run_pc = "finished" =>
        /\ DOMAIN experiment_counts = {NameOf(results[k]) : k \in DOMAIN results}
        /\ \A name \in DOMAIN experiment_counts :
              LET c == experiment_counts[name]
              IN  /\ c.total = Cardinality(WithName(results, name))
                  /\ c.failed = Cardinality(WithError(results, name))
                  /\ c.success = Cardinality(WithName(results, name)
                                             \ WithError(results, name))
                  /\ c.total = c.success + c.failed

\* 3 successes and 2 failures of experiment "x" give total 5, success 3, failed 2
C13_Witness ==
    /\ run_pc = "finished"
    /\ Cardinality(WithName(results, "x")) = 5
    /\ Cardinality(WithError(results, "x")) = 2
    /\ experiment_counts = ("x" :> [total |-> 5, success |-> 3, failed |-> 2])

\* main() was left through an interrupt or an unexpected exception
EndedEarly == run_pc \in {"interrupted", "errored", "killed"}

\* C14: a run that is interrupted or hits an unexpected error after the
\* runner exists ends with a saved document, and that document holds
\* every record made so far, the ones of the experiment under way
\* included.
C14_PartialResultsSaved ==
    EndedEarly =>
        /\ saved # NoDoc
        /\ saved.data.results = results \o experiment_results

\* C15: when the client cannot be constructed or the probe answers false,
\* main() never gets to an experiment: no experiment call is issued (the
\* only call there can have been is the probe's), nothing is recorded
\* and nothing is saved.
C15_InitFailureHalts ==
    InitFailed =>
        /\ run_pc \in {"init", "halted"}
        /\ phase = 0
        /\ \A ph \in 1..5 : attempted[ph] = 0
        /\ ncalls = (IF probe_pc = "returned" THEN 1 ELSE 0)
        /\ results = <<>> /\ experiment_results = <<>>
        /\ saved = NoDoc

\* main() has returned after a probe that answered false
C15_Witness ==
    /\ run_pc = "halted"
    /\ client_state = "ready"
    /\ probe_pc = "returned" /\ ~PyTruthy(probe_ret)

InFlight(i) == tasks[i].st = "inflight"

\* C16: the concurrent batch of experiment 5 has all its calls in flight
\* from the moment it starts, with no time passing between them; the
\* experiment goes on past asyncio.gather only when every call is over;
\* and a call that raised APIRequestError leaves every sibling in flight
\* able to complete.
C16_BatchAllInFlightAllAwaited ==
    /\ (run_pc = "running" /\ step = "gather") =>
          /\ Len(tasks) = BatchSize(phase)
          /\ \A i \in DOMAIN tasks :
                InFlight(i) =>
                    ENABLED (\E p \in DriverPlans, d \in CallDurations : TaskResolve(i, p, d))
    /\ phase = 6 =>
          /\ Len(tasks) = BatchSize(5)
          /\ \A i \in DOMAIN tasks : ~InFlight(i)
          /\ \A i \in DOMAIN tasks :
                tasks[i].st = "returned" => tasks[i].latency_ms \in CallDurations

\* experiment 5 has returned; one call of the batch had raised and a
\* sibling completed after it
C16_Witness ==
    /\ phase = 6
    /\ \E i, j \in DOMAIN tasks :
          /\ tasks[i].st = "none"
          /\ tasks[j].st = "returned"
          /\ tasks[i].took < tasks[j].took
          /\ tasks[j].latency_ms = tasks[j].took

\* C17: every step that writes a document leaves self.results as it was,
\* and the document's results are self.results, in order, with
\* total_experiments their number.
C17_SavedDocumentFaithful ==
    [][ saved' # saved =>
          /\ results' = results
          /\ saved'.data.results = results
          /\ saved'.data.total_experiments = Len(saved'.data.results) ]_vars

\* a document with several records, one of them a failure
C17_Witness ==
    /\ saved # NoDoc
    /\ Len(saved.data.results) >= 2
    /\ \E k \in DOMAIN saved.data.results : "error" \in DOMAIN saved.data.results[k]
    /\ \E k \in DOMAIN saved.data.results : "error" \notin DOMAIN saved.data.results[k]

\* C18: in the sequential loop of an experiment, every call but the first
\* is issued only after a pacing delay has been slept since the call
\* before it resolved, whether that call returned or raised.
C18_PacingBetweenCalls ==
    (run_pc = "running" /\ step = "awaiting" /\ issued > 1) => slept > 0

IsPrefix(a, b) == Len(a) <= Len(b) /\ SubSeq(b, 1, Len(a)) = a

\* the records of rs were made one after the other, in this order
Chronological(rs) ==
    \A i \in 1..(Len(rs) - 1) : rs[i]["timestamp"] < rs[i + 1]["timestamp"]

\* C19: no step of a run removes or reorders records of self.results:
\* every step leaves it alone or appends to it, and its records stand in
\* the order in which their calls were made.
C19_AppendOnlyChronological ==
    [][ IsPrefix(results, results') /\ Chronological(results') ]_vars

\* a finished run whose five experiments have all left records
C19_Witness ==
    /\ run_pc = "finished"
    /\ \A ph \in 1..5 : RecordsOf(results, ph) # {}
    /\ failures > 0

\* the tasks of the batch that returned a result
ReturnedTasks(ts) == {i \in DOMAIN ts : ts[i].st = "returned"}

\* C20: a step of a task of the concurrent batch changes that task's own
\* outcome and nothing else of the driver: not self.results, not the
\* experiment's record list, not a sibling's outcome.  The records of the
\* batch are added by the step that follows asyncio.gather, and they
\* account for every task that returned a result.
C20_TasksLeaveRecordsAlone ==
    [][ /\ (step = "gather" /\ tasks' # tasks) =>
              /\ results' = results
              /\ experiment_results' = experiment_results
              /\ sequential_times' = sequential_times
              /\ Cardinality({i \in DOMAIN tasks : tasks'[i] # tasks[i]}) = 1
              /\ \A i \in DOMAIN tasks : ~InFlight(i) => tasks'[i] = tasks[i]
        /\ (step = "gather" /\ step' # "gather" /\ run_pc' = run_pc) =>
              LET added == SubSeq(results', Len(results) + 1, Len(results'))
                  batch == SelectSeq(added, LAMBDA r : Get(r, "test_type", "") = "concurrent")
              IN  /\ IsPrefix(experiment_results, added)
                  /\ Len(added) = Len(experiment_results) + Len(batch)
                  /\ Len(batch) = (IF ReturnedTasks(tasks) = {} THEN 0 ELSE 1)
                  /\ \A k \in DOMAIN batch :
                        Len(batch[k]["latencies"]) = Cardinality(ReturnedTasks(tasks))
      ]_vars

\* experiment 5 has returned; the batch's tasks all returned a result, the
\* second before the first
C20_Witness ==
    /\ phase = 6
    /\ Len(tasks) >= 2
    /\ ReturnedTasks(tasks) = DOMAIN tasks
    /\ tasks[2].latency_ms < tasks[1].latency_ms
    /\ Len(results[Len(results)]["latencies"]) = Len(tasks)

\* the records of the call with the invalid model name in rs
InvalidModelRecords(rs) ==
    {k \in DOMAIN rs : Get(rs[k], "case_name", "") = "invalid_model"}

\* C21: once experiment 4 has returned, the outcome of its call with the
\* invalid model name is on record: the expected APIRequestError as a
\* handled failure, a call that went through as a violation.
C21_InvalidModelOutcomeRecorded ==
    Returned(4) =>
        /\ InvalidModelRecords(results) # {}
        /\ \A k \in InvalidModelRecords(results) :
              "error" \in DOMAIN results[k] => results[k]["handled"] = TRUE

\* C22: at the end of a run every call that raised APIRequestError has
\* its failure record in self.results, and every failure record names
\* the experiment, the model and the input (prompt, case or parameter)
\* next to the error message.
C22_FailuresRecordedWithContext ==
    run_pc = "finished" =>
        LET failed == {k \in DOMAIN results : "error" \in DOMAIN results[k]}
        IN  /\ Cardinality(failed) = failures
            /\ \A k \in failed :
                  /\ {"experiment", "model", "error"} \subseteq DOMAIN results[k]
                  /\ DOMAIN results[k] \cap {"prompt_name", "case_name", "parameter"} # {}

----------------------------------------------------------------------------
(* chat_completion called with every combination of its optional arguments *)

MaxSegments == 3      \* "/"-separated segments of a model identifier

\* model identifiers: "a", "b", "a/a", "a/b", .., "a/b/a", ..
ModelIds == UNION {[1..n -> {"a", "b"}] : n \in 1..MaxSegments}

\* an optional argument: left out, or one of vals
Optional(k, vals) == {EmptyDict} \cup {k :> v : v \in vals}

PayloadRequests ==
    {[model |-> m, messages |-> UserMessage("a")] @@ t @@ mt @@ tp @@ st :
        m \in ModelIds,
        t \in Optional("temperature", {"0.2"}),
        mt \in Optional("max_tokens", {0, 256}),
        tp \in Optional("top_p", {"0.9"}),
        st \in Optional("stream", BOOLEAN)}

\* a client constructed from CONCENTRATE_API_KEY=k
InitPayload ==
    /\ env_api_key = <<"k">> /\ OPENAI_MODELS = <<>> /\ client_state = "ready"
    /\ ctor_arg = PyNone /\ api_key = <<"k">>
    /\ headers = [Authorization |-> <<"Bearer", " ", "k">>,
                  ContentType |-> "application/json"]
    /\ env_base_url = DefaultBaseUrl /\ base_url = rstrip(env_base_url)
    /\ timeout = DefaultTimeout
    /\ CallIdle /\ ncalls = 0 /\ netCalls = 0
    /\ probe_pc = "idle" /\ probe_ret = PyNone /\ probe_call = EmptyDict
    /\ XlIdle /\ NmIdle /\ DrvAt("off")

NextPayload ==
    \/ \E r \in PayloadRequests, p \in DriverPlans : CallChatCompletion(r, p)
    \/ Attempt
    \/ CallerResume

SpecPayload == InitPayload /\ [][NextPayload]_vars

\* C23 as stated: the payload has model, input and temperature, and has
\* max_output_tokens, top_p and stream exactly when the caller passed
\* max_tokens, top_p and stream.
C23_OptionsExactlyWhenProvided ==
    CallEnded =>
        /\ {"model", "input", "temperature"} \subseteq DOMAIN payload
        /\ "max_output_tokens" \in DOMAIN payload <=> "max_tokens" \in DOMAIN req
        /\ "top_p" \in DOMAIN payload <=> "top_p" \in DOMAIN req
        /\ "stream" \in DOMAIN payload <=> "stream" \in DOMAIN req

\* C23, amended: the payload has model, input and temperature; it has
\* max_output_tokens and top_p, with the caller's values, exactly when
\* the caller passed them; it has stream, as true, exactly when the
\* caller passed stream as true; it has no other key.
C23_OptionsWhenProvidedStreamWhenTrue ==
    CallEnded =>
        /\ DOMAIN payload \subseteq
              {"model", "input", "temperature", "max_output_tokens", "top_p", "stream"}
        /\ {"model", "input", "temperature"} \subseteq DOMAIN payload
        /\ payload["temperature"] = Get(req, "temperature", "0.7")
        /\ "max_output_tokens" \in DOMAIN payload <=> "max_tokens" \in DOMAIN req
        /\ "max_tokens" \in DOMAIN req => payload["max_output_tokens"] = req["max_tokens"]
        /\ "top_p" \in DOMAIN payload <=> "top_p" \in DOMAIN req
        /\ "top_p" \in DOMAIN req => payload["top_p"] = req["top_p"]
        /\ "stream" \in DOMAIN payload <=> Get(req, "stream", FALSE)
        /\ "stream" \in DOMAIN payload => payload["stream"] = TRUE

\* a call with max_tokens=0 and stream=False and no top_p
C23_Witness ==
    /\ CallEnded
    /\ "max_tokens" \in DOMAIN req /\ req["max_tokens"] = 0
    /\ "stream" \in DOMAIN req /\ req["stream"] = FALSE
    /\ "top_p" \notin DOMAIN req
    /\ DOMAIN payload = {"model", "input", "temperature", "max_output_tokens"}

\* C24: the payload's model is what follows the last "/" of the requested
\* identifier, or the identifier itself when it has no "/"; the result's
\* model is the requested identifier.
C24_ModelStrippedInPayloadKeptInResult ==
    CallEnded =>
        /\ payload["model"] = (IF Len(req["model"]) = 1 THEN req["model"]
                               ELSE <<req["model"][Len(req["model"])]>>)
        /\ pc = "returned" => result["model"] = req["model"]

\* a returned call for an identifier with two "/" whose parts differ
C24_Witness ==
    /\ pc = "returned"
    /\ req["model"] = <<"a", "b", "a">>
    /\ payload["model"] = <<"a">>
    /\ result["model"] = <<"a", "b", "a">>

----------------------------------------------------------------------------
(* The latency a call reports *)

----------------------------------------------------------------------------
(* The time of the concurrent batch *)

\* the records of experiment 5 of one test_type in self.results
PerformanceRecords(test_type) ==
    SelectSeq(results, LAMBDA r : Get(r, "test_type", "") = test_type)

\* the duration of the longest call among the tasks ts
LongestCall(ts) ==
    CHOOSE m \in {ts[i].took : i \in DOMAIN ts} : \A i \in DOMAIN ts : ts[i].took <= m

\* C26: the total_time_ms of the concurrent record is the time from the
\* start of the batch to the end of its last call, which is the duration
\* of its longest call and not the sum of the calls' latencies: when each
\* of the N calls takes T it is T.  The latencies of the sequential loop,
\* whose calls take one tick each, add up to one tick per call.
C26_BatchTimedOnceAroundGather ==
    phase = 6 =>
        /\ \A k \in DOMAIN PerformanceRecords("concurrent") :
              LET rec == PerformanceRecords("concurrent")[k]
              IN  /\ rec["total_time_ms"] = LongestCall(tasks)
                  /\ \A T \in CallDurations :
                        (\A i \in DOMAIN tasks : tasks[i].took = T)
                            => rec["total_time_ms"] = T
        /\ \A k \in DOMAIN PerformanceRecords("sequential") :
              LET rec == PerformanceRecords("sequential")[k]
              IN  Sum(rec["latencies"]) = Len(rec["latencies"])

\* experiment 5 has returned; every call of the batch took 2 and
\* returned, the batch took 2 and its latencies add up to 2 per call
C26_Witness ==
    /\ phase = 6
    /\ Len(tasks) >= 2
    /\ \A i \in DOMAIN tasks : tasks[i].st = "returned" /\ tasks[i].took = 2
    /\ Len(PerformanceRecords("concurrent")) = 1
    /\ PerformanceRecords("concurrent")[1]["total_time_ms"] = 2
    /\ Sum(PerformanceRecords("concurrent")[1]["latencies"]) = 2 * Len(tasks)
    /\ Len(PerformanceRecords("sequential")) = 1
    /\ Len(PerformanceRecords("sequential")[1]["latencies"]) >= 2

----------------------------------------------------------------------------
(* The client's configuration during a run *)

\* self.api_key, self.base_url, self.timeout and self.headers
Configuration == <<api_key, base_url, timeout, headers>>

\* C27: once the client is constructed, no step of a run changes its
\* credential, base URL, timeout or headers, and none closes it or
\* constructs it anew: the probe, the calls of the sequential loops, the
\* tasks of the concurrent batch and the ways out of main() all leave the
\* client as __init__ made it.
C27_ConfigurationFixedAfterConstruction ==
    [][ client_state = "ready" =>
          /\ client_state' = "ready"
          /\ Configuration' = Configuration ]_vars

\* a run that went through the five experiments, the concurrent batch
\* with a failed call included, and finished with the client as
\* __init__ made it from a base URL that ended in "/"
C27_Witness ==
    /\ run_pc = "finished"
    /\ failures >= 1
    /\ \E i \in DOMAIN tasks : tasks[i].st = "none"
    /\ client_state = "ready"
    /\ env_base_url # DefaultBaseUrl
    /\ Configuration = << env_api_key, DefaultBaseUrl, DefaultTimeout,
                          [Authorization |-> <<"Bearer", " ">> \o env_api_key,
                           ContentType |-> "application/json"] >>

====
